---- MODULE Spec2Model ----
(***************************************************************************)
(* nemdata/mmsdm.py: resolution of MMSDM archive files, the download /     *)
(* normalise / cache pipeline of one period, and the range orchestrator.   *)
(*                                                                         *)
(* Strings are TLA+ strings (TLC evaluates \o, Len and SubSeq on them), so *)
(* URLs, file names and paths are built character for character as the     *)
(* f-strings of the source build them.  Dates are records                  *)
(* [year, month, day]; None is the string "None".                          *)
(***************************************************************************)
EXTENDS Integers, Sequences, FiniteSets, TLC

None == "None"

(***************************************************************************)
(* Bounds of the model.                                                    *)
(***************************************************************************)
\* calls of download_mmsdm in one behaviour
MaxCalls == 2
\* distinct well-formed payloads the remote may serve for one period
NumVersions == 2
\* data rows of a payload (between the header rows and the footer row)
NumRows == 1
\* a day of the month other than the first, for dates inside a month
MidDay == 15
\* years of the periods the locator is applied to
FirstYear == 2023
LastYear == 2025
\* months a range given to the locator extends past the month of its start
MaxSpan == 2

(***************************************************************************)
(* The cutover of the naming scheme, mmsdm.py line 163.                    *)
(***************************************************************************)
CutoverYear == 2024
CutoverMonth == 8

(***************************************************************************)
(* String helpers: Python's str.zfill, `in`, str.replace.                  *)
(***************************************************************************)
RECURSIVE zfill(_, _)
zfill(s, width) == IF Len(s) >= width THEN s ELSE zfill("0" \o s, width)

StartsWith(s, p) == Len(s) >= Len(p) /\ SubSeq(s, 1, Len(p)) = p

\* where p occurs in s
Occurrences(s, p) == {i \in 1..(Len(s) - Len(p) + 1) : SubSeq(s, i, i + Len(p) - 1) = p}

\* p in s
Contains(s, p) == Occurrences(s, p) # {}

\* s.replace(old, new): every non-overlapping occurrence, left to right
RECURSIVE ReplaceFrom(_, _, _, _, _)
ReplaceFrom(s, old, new, occ, from) ==
    LET later == {a \in occ : a >= from}
    IN  IF later = {} THEN SubSeq(s, from, Len(s))
        ELSE LET at == CHOOSE a \in later : \A b \in later : a <= b
             IN  SubSeq(s, from, at - 1) \o new \o ReplaceFrom(s, old, new, occ, at + Len(old))

Replace(s, old, new) == ReplaceFrom(s, old, new, Occurrences(s, old), 1)

(***************************************************************************)
(* mmsdm_tables, lines 33-113.  The frequency field is tagged with its     *)
(* Python type: an int (minutes) or a VariableFrequency.  A falsy          *)
(* datetime_columns (None or the empty list) is <<>>.                      *)
(***************************************************************************)
MMSDMTable(name, table, directory, datetime_columns, interval_column, frequency, legacy_table) ==
    [name |-> name, table |-> table, directory |-> directory,
     datetime_columns |-> datetime_columns, interval_column |-> interval_column,
     frequency |-> frequency, legacy_table |-> legacy_table]

\* instants are minutes on the model's clock; the transition instant comes from
\* nemdata.constants and is set here to the second instant a payload can hold
VariableFrequency(before, transition, after) ==
    [type |-> "VariableFrequency", frequency_minutes_before |-> before,
     frequency_minutes_after |-> after, transition_datetime_interval_end |-> transition]

Minutes(n) == [type |-> "int", minutes |-> n]

mmsdm_tables0 == <<
    MMSDMTable("dispatch-price", "DISPATCHPRICE", "DATA",
               <<"SETTLEMENTDATE">>, "SETTLEMENTDATE", Minutes(5), None),
    MMSDMTable("predispatch", "PREDISPATCHPRICE#ALL#FILE01", "PREDISP_ALL_DATA",
               <<"LASTCHANGED", "DATETIME">>, "DATETIME", Minutes(30), "PREDISPATCHPRICE"),
    MMSDMTable("unit-scada", "DISPATCH_UNIT_SCADA", "DATA",
               <<"LASTCHANGED", "SETTLEMENTDATE">>, "SETTLEMENTDATE", Minutes(5), None),
    MMSDMTable("trading-price", "TRADINGPRICE", "DATA",
               <<"SETTLEMENTDATE">>, "SETTLEMENTDATE", VariableFrequency(30, 60, 5), None),
    MMSDMTable("demand", "DISPATCHREGIONSUM", "DATA",
               <<"LASTCHANGED", "SETTLEMENTDATE">>, "SETTLEMENTDATE", Minutes(5), None),
    MMSDMTable("interconnectors", "DISPATCHINTERCONNECTORRES", "DATA",
               <<"LASTCHANGED", "SETTLEMENTDATE">>, "SETTLEMENTDATE", Minutes(5), None),
    MMSDMTable("p5min", "P5MIN_REGIONSOLUTION_ALL#ALL#FILE01", "P5MIN_ALL_DATA",
               <<"RUN_DATETIME", "INTERVAL_DATETIME", "LASTCHANGED">>, "INTERVAL_DATETIME", Minutes(5),
               "P5MIN_REGIONSOLUTION_ALL"),
    MMSDMTable("predispatch-sensitivities", "PREDISPATCHPRICESENSITIVITIE_D", "DATA",
               <<"LASTCHANGED", "DATETIME">>, "DATETIME", Minutes(30), None),
    MMSDMTable("predispatch-demand", "PREDISPATCHREGIONSUM#ALL#FILE01", "PREDISP_ALL_DATA",
               <<"LASTCHANGED", "DATETIME">>, "DATETIME", Minutes(30), "PREDISPATCHREGIONSUM")
>>

TableNames == {mmsdm_tables0[k].name : k \in 1..Len(mmsdm_tables0)}

VARIABLES
    mmsdm_tables,   \* the module-level catalog (a list of MMSDMTable)
    dirs,           \* directories that exist under the base directory
    fs,             \* files under the base directory: path -> content
    pc,             \* "idle", "loop", "returned", "raised"
    call,           \* arguments of the running / last call of download_mmsdm
    files,          \* its list of MMSDMFile
    i,              \* index in files of the next period to process
    dataset,        \* its list of per-period frames
    result,         \* what it returned (None before it returns, and when it raises)
    out,            \* status lines it printed
    requests,       \* network requests it issued
    prev,           \* summary of the call before it
    ncalls          \* calls started so far

vars == <<mmsdm_tables, dirs, fs, pc, call, files, i, dataset, result, out, requests, prev, ncalls>>

(***************************************************************************)
(* find_mmsdm_table, lines 126-133: the first table of that name, or       *)
(* ValueError.                                                             *)
(***************************************************************************)
HasTable(tables, name) == \E k \in 1..Len(tables) : tables[k].name = name

\* a lookup that falls back to the first table instead of raising
find_mmsdm_table_default(tables, name) ==
    IF HasTable(tables, name)
    THEN [kind |-> "MMSDMTable",
          table |-> tables[CHOOSE k \in 1..Len(tables) : tables[k].name = name]]
    ELSE [kind |-> "MMSDMTable", table |-> tables[1]]

find_mmsdm_table(tables, name) ==
    IF HasTable(tables, name)
    THEN [kind |-> "MMSDMTable",
          table |-> tables[CHOOSE k \in 1..Len(tables) :
                              /\ tables[k].name = name
                              /\ \A j \in 1..(k - 1) : tables[j].name # name]]
    ELSE [kind |-> "raise", error |-> "ValueError"]

(***************************************************************************)
(* make_one_mmsdm_file, lines 153-182.                                     *)
(***************************************************************************)
\* Python's tuple comparison a >= b on pairs
TupleGE(a, b) == a[1] > b[1] \/ (a[1] = b[1] /\ a[2] >= b[2])

\* the cutover tested field by field instead of as a tuple
IsNewSchemeFieldwise(year, month) == year >= CutoverYear /\ month >= CutoverMonth

\* line 163
IsNewScheme(year, month) == TupleGE(<<year, month>>, <<CutoverYear, CutoverMonth>>)

\* truthiness of an optional string, as in `x if x else y`
Truthy(x) == x # None /\ x # ""

base_directory == "base"

MMSDMFile(year, month, table, url, csv_name, data_directory, zipfile_path) ==
    [year |-> year, month |-> month, table |-> table, url |-> url, csv_name |-> csv_name,
     data_directory |-> data_directory, zipfile_path |-> zipfile_path]

make_one_mmsdm_file(year, month, table, base) ==
    LET y == ToString(year)
        padded_month == zfill(ToString(month), 2)
        url_prefix == "https://www.nemweb.com.au/Data_Archive/Wholesale_Electricity/MMSDM/"
                      \o y \o "/MMSDM_" \o y \o "_" \o padded_month
                      \o "/MMSDM_Historical_Data_SQLLoader"
        legacy_table_name == IF Truthy(table.legacy_table) THEN table.legacy_table ELSE table.table
        new == IsNewScheme(year, month)
        url == IF new
               THEN Replace(url_prefix \o "/" \o table.directory \o "/PUBLIC_ARCHIVE#" \o table.table
                            \o "#" \o y \o padded_month \o "010000.zip", "#", "%23")
               ELSE url_prefix \o "/" \o table.directory \o "/PUBLIC_DVD_" \o legacy_table_name
                    \o "_" \o y \o padded_month \o "010000.zip"
        csv_name == IF new
                    THEN "PUBLIC_ARCHIVE#" \o table.table \o "#" \o y \o padded_month \o "010000.CSV"
                    ELSE "PUBLIC_DVD_" \o legacy_table_name \o "_" \o y \o padded_month \o "010000.CSV"
        data_directory == base \o "/" \o table.name \o "/" \o y \o "-" \o padded_month
    \* the table field refers to the catalog's MMSDMTable object (pydantic keeps the
    \* instance): the model holds its unique name and reads the object from the catalog
    IN  MMSDMFile(year, month, table.name, url, csv_name, data_directory,
                  data_directory \o "/raw.zip")

\* data_directory.mkdir(exist_ok=True, parents=True), line 172
Mkdir(ds, base, f) == ds \cup {base, base \o "/" \o f.table, f.data_directory}

RECURSIVE MkdirAll(_, _, _)
MkdirAll(ds, base, fl) ==
    IF fl = <<>> THEN ds ELSE MkdirAll(Mkdir(ds, base, Head(fl)), base, Tail(fl))

(***************************************************************************)
(* make_many_mmsdm_files, lines 136-150.  pd.date_range(start, end,        *)
(* freq="MS") is the first days of month d with start <= d <= end.         *)
(***************************************************************************)
Date(year, month, day) == [year |-> year, month |-> month, day |-> day]

DateLE(a, b) ==
    \/ a.year < b.year
    \/ a.year = b.year /\ a.month < b.month
    \/ a.year = b.year /\ a.month = b.month /\ a.day <= b.day

AddMonths(d, k) ==
    LET total == d.year * 12 + (d.month - 1) + k
    IN  Date(total \div 12, (total % 12) + 1, d.day)

\* the month starts from d on, up to end
RECURSIVE MonthStartsFrom(_, _)
MonthStartsFrom(d, end) ==
    IF DateLE(d, end) THEN <<d>> \o MonthStartsFrom(AddMonths(d, 1), end) ELSE <<>>

\* the first generated date: start rolled forward to a month start
RollForward(start) ==
    IF start.day = 1 THEN start ELSE AddMonths(Date(start.year, start.month, 1), 1)

date_range_MS(start, end) == MonthStartsFrom(RollForward(start), end)

\* table comes from the catalog, so the lookup of line 140 finds it
make_many_mmsdm_files(tables, start, end, table, base) ==
    LET t == find_mmsdm_table(tables, table.name).table
        months == date_range_MS(start, end)
    IN  [k \in 1..Len(months) |->
            make_one_mmsdm_file(months[k].year, months[k].month, t, base)]

(***************************************************************************)
(* Frames and payloads.  A frame (pd.DataFrame) is its column names, its   *)
(* rows (tuples of values, one per column) and the set of columns that     *)
(* hold timezone-aware timestamps.  A CSV payload is a list of lines, each *)
(* a tuple of fields.                                                      *)
(***************************************************************************)
DataFrame(columns, rows, tz) == [columns |-> columns, rows |-> rows, tz |-> tz]

EmptyFrame == DataFrame(<<>>, <<>>, {})

SeqRange(s) == {s[k] : k \in 1..Len(s)}

IndexOf(s, x) == CHOOSE k \in 1..Len(s) : s[k] = x /\ \A j \in 1..(k - 1) : s[j] # x

\* what the archive of period f holds in its version v: a leading line, the
\* line of column names, NumRows data lines and the trailing line
PayloadColumns(f, v) ==
    find_mmsdm_table(mmsdm_tables0, f.table).table.datetime_columns \o <<"RRP">>

Payload(f, v) ==
    LET cols == PayloadColumns(f, v)
    IN  <<[kind |-> "C", fields |-> <<>>], [kind |-> "I", fields |-> cols]>>
        \o [r \in 1..NumRows |->
               [kind |-> "D",
                fields |-> [c \in 1..Len(cols) |->
                               IF cols[c] = "RRP" THEN 1000 * v + 100 * f.month + r
                               ELSE 30 * r + 30 * (f.month % 2)]]]
        \o <<[kind |-> "C", fields |-> <<>>]>>

\* a malformed payload: a data line with more fields than the line of names
Malformed(f) ==
    <<[kind |-> "C", fields |-> <<>>], [kind |-> "I", fields |-> <<"RRP">>],
      [kind |-> "D", fields |-> <<1, 2>>], [kind |-> "C", fields |-> <<>>]>>

\* a payload of an unexpected schema: well-formed, without the datetime columns
Unexpected(f) ==
    <<[kind |-> "C", fields |-> <<>>], [kind |-> "I", fields |-> <<"RRP">>],
      [kind |-> "D", fields |-> <<1>>], [kind |-> "C", fields |-> <<>>]>>

NotAvailable == [status |-> "404", member |-> "", lines |-> <<>>]

\* the answer to a GET: the status and, with status 200, a zip archive: the name
\* of its one member and the member's lines
Archive(member, lines) == [status |-> "200", member |-> member, lines |-> lines]

\* what a GET of f.url may answer: nothing, or an archive whose member is named
\* as the naming scheme of the period says
Responses(f) ==
    {NotAvailable} \cup {Archive(f.csv_name, Malformed(f)), Archive(f.csv_name, Unexpected(f))}
                  \cup {Archive(f.csv_name, Payload(f, v)) : v \in 1..NumVersions}

\* what a HEAD of the FILE02 url may answer
HeadResponses == {"200", "404", "RequestException"}

(***************************************************************************)
(* load_unzipped_mmsdm_file, lines 185-193: skiprows=1 drops the first     *)
(* line, the next line names the columns, iloc[:-1] drops the last row.    *)
(* read_csv raises on a line with more fields than there are columns.      *)
(***************************************************************************)
\* what a step hands back: a frame, None, or an error raised
Frame(data) == [kind |-> "DataFrame", data |-> data, error |-> ""]
NoneRet == [kind |-> "None", data |-> EmptyFrame, error |-> ""]
Raise(error) == [kind |-> "raise", data |-> EmptyFrame, error |-> error]

load_unzipped_mmsdm_file(fsys, f) ==
    LET lines == fsys[f.data_directory \o "/" \o f.csv_name]
        body == SubSeq(lines, 2, Len(lines))
        columns == Head(body).fields
        rows == [k \in 1..(Len(body) - 1) |-> body[k + 1].fields]
    IN  IF \E k \in 1..Len(rows) : Len(rows[k]) > Len(columns)
        THEN Raise("ParserError")
        ELSE Frame(DataFrame(columns, SubSeq(rows, 1, Len(rows) - 1), {}))

(***************************************************************************)
(* make_datetime_columns, lines 196-208.  `datetime_columns +=` extends    *)
(* the list object of the catalog's table in place.  A named column the    *)
(* frame lacks is skipped (KeyError); tz_localize of a column that is      *)
(* already timezone-aware raises TypeError.                                *)
(***************************************************************************)
RECURSIVE Localize(_, _)
Localize(data, cols) ==
    IF cols = <<>> THEN Frame(data)
    ELSE LET col == Head(cols)
         IN  IF col \notin SeqRange(data.columns) THEN Localize(data, Tail(cols))
             ELSE IF col \in data.tz THEN Raise("TypeError")
             ELSE Localize([data EXCEPT !.tz = @ \cup {col}], Tail(cols))

\* the catalog after line 200
ExtendColumns(tables, k) ==
    [tables EXCEPT ![k].datetime_columns = @ \o <<"interval-start", "interval-end">>]

make_datetime_columns(data, tables, k) ==
    IF tables[k].datetime_columns = <<>>
    THEN [ret |-> Raise("AssertionError"), tables |-> tables]
    ELSE LET extended == ExtendColumns(tables, k)
         IN  [ret |-> Localize(data, extended[k].datetime_columns), tables |-> extended]

(***************************************************************************)
(* utils.add_interval_column: interval-end is the value of the interval    *)
(* column, interval-start is interval-end minus the frequency; a variable  *)
(* frequency is the "after" one from the transition instant on.            *)
(***************************************************************************)
FrequencyAt(frequency, end) ==
    IF frequency.type = "int" THEN frequency.minutes
    ELSE IF end >= frequency.transition_datetime_interval_end
         THEN frequency.frequency_minutes_after
         ELSE frequency.frequency_minutes_before

add_interval_column(data, table) ==
    IF table.interval_column \notin SeqRange(data.columns) THEN Raise("KeyError")
    ELSE LET c == IndexOf(data.columns, table.interval_column)
         IN  Frame(DataFrame(
                 data.columns \o <<"interval-start", "interval-end">>,
                 [r \in 1..Len(data.rows) |->
                     data.rows[r] \o <<data.rows[r][c] - FrequencyAt(table.frequency, data.rows[r][c]),
                                       data.rows[r][c]>>],
                 data.tz \cup {"interval-start", "interval-end"}))

(***************************************************************************)
(* The file system and the network.                                        *)
(***************************************************************************)
Exists(fsys, path) == path \in DOMAIN fsys

WriteFile(fsys, path, content) ==
    [p \in DOMAIN fsys \cup {path} |-> IF p = path THEN content ELSE fsys[p]]

\* data.to_csv(path): the line of names and the rows as text lines
to_csv(fsys, path, data) == WriteFile(fsys, path, [header |-> data.columns, lines |-> data.rows])

\* data.to_parquet(path): names, values and dtypes
to_parquet(fsys, path, data) == WriteFile(fsys, path, data)

read_parquet(fsys, path) == fsys[path]

\* utils.download_zipfile: GET of the url; the archive is written to
\* zipfile_path when the remote has it
download_zipfile(fsys, f, resp) ==
    [available |-> resp.status = "200",
     fs |-> IF resp.status = "200"
            THEN WriteFile(fsys, f.zipfile_path, [member |-> resp.member, lines |-> resp.lines])
            ELSE fsys,
     requests |-> <<[method |-> "GET", url |-> f.url]>>]

\* utils.unzip: the member is extracted next to the archive
unzip(fsys, path) ==
    LET parent == SubSeq(path, 1, Len(path) - Len("/raw.zip"))
    IN  WriteFile(fsys, parent \o "/" \o fsys[path].member, fsys[path].lines)

(***************************************************************************)
(* check_for_additional_files, lines 233-248.                              *)
(***************************************************************************)
check_for_additional_files(f, head) ==
    IF ~Contains(f.url, "FILE01") THEN [requests |-> <<>>, out |-> <<>>]
    ELSE [requests |-> <<[method |-> "HEAD", url |-> Replace(f.url, "FILE01", "FILE02")]>>,
          out |-> IF head = "200" THEN <<[tag |-> "UserWarning", path |-> f.url]>> ELSE <<>>]

(***************************************************************************)
(* download_one_mmsdm, lines 251-281.  The result: what is returned (a     *)
(* frame or None) or the error raised, and the file system, the catalog,   *)
(* the lines printed and the requests issued.                              *)
(***************************************************************************)
clean_parquet(f) == f.data_directory \o "/clean.parquet"
clean_csv(f) == f.data_directory \o "/clean.csv"

Line(tag, path) == [tag |-> tag, path |-> path]

Outcome(ret, fsys, tables, printed, reqs) ==
    [ret |-> ret, fs |-> fsys, tables |-> tables, out |-> printed, requests |-> reqs]

\* a cache gate that never finds the artifact
NeverCached(fsys, f) == FALSE

\* line 255
IsCached(fsys, f) == Exists(fsys, clean_parquet(f))

\* persistence that ignores dry_run
PersistAlways(fsys, f, data, dry_run) ==
    [fs |-> to_parquet(to_csv(fsys, clean_csv(f), data), clean_parquet(f), data),
     out |-> <<Line("SAVING", clean_parquet(f))>>]

\* persistence that writes the text file only
PersistCsvOnly(fsys, f, data, dry_run) ==
    IF ~dry_run
    THEN [fs |-> to_csv(fsys, clean_csv(f), data), out |-> <<Line("SAVING", clean_parquet(f))>>]
    ELSE [fs |-> fsys, out |-> <<>>]

\* lines 277-280; the two writes are taken to succeed
Persist(fsys, f, data, dry_run) ==
    IF ~dry_run
    THEN [fs |-> to_parquet(to_csv(fsys, clean_csv(f), data), clean_parquet(f), data),
          out |-> <<Line("SAVING", clean_parquet(f))>>]
    ELSE [fs |-> fsys, out |-> <<>>]

\* lines 269-281: the archive is at zipfile_path
Process(tables, fsys, f, dry_run, printed, reqs) ==
    LET k == IndexOf([j \in 1..Len(tables) |-> tables[j].name], f.table)
        p1 == printed \o <<Line("DOWNLOADING", f.zipfile_path)>>
        fs1 == unzip(fsys, f.zipfile_path)
        loaded == load_unzipped_mmsdm_file(fs1, f)
        dt == make_datetime_columns(loaded.data, tables, k)
        data == add_interval_column(dt.ret.data, dt.tables[k])
    IN  IF loaded.kind = "raise" THEN Outcome(loaded, fs1, tables, p1, reqs)
        ELSE IF tables[k].datetime_columns = <<>>
        THEN Outcome(Raise("AssertionError"), fs1, tables, p1, reqs)
        ELSE IF dt.ret.kind = "raise" THEN Outcome(dt.ret, fs1, dt.tables, p1, reqs)
        ELSE IF data.kind = "raise" THEN Outcome(data, fs1, dt.tables, p1, reqs)
        ELSE LET saved == Persist(fs1, f, data.data, dry_run)
             IN  Outcome(data, saved.fs, dt.tables, p1 \o saved.out, reqs)

\* a fetch that caches an empty frame for a period the remote does not have
FetchCachesEmpty(tables, fsys, f, dry_run, printed, reqs, resp) ==
    LET got == download_zipfile(fsys, f, resp)
    IN  IF ~got.available
        THEN Outcome(NoneRet, to_parquet(got.fs, clean_parquet(f), EmptyFrame), tables,
                     printed \o <<Line("NOT AVAILABLE", f.zipfile_path)>>, reqs \o got.requests)
        ELSE Process(tables, got.fs, f, dry_run, printed, reqs \o got.requests)

\* lines 263-267
Fetch(tables, fsys, f, dry_run, printed, reqs, resp) ==
    LET got == download_zipfile(fsys, f, resp)
    IN  IF ~got.available
        THEN Outcome(NoneRet, got.fs, tables,
                     printed \o <<Line("NOT AVAILABLE", f.zipfile_path)>>, reqs \o got.requests)
        ELSE Process(tables, got.fs, f, dry_run, printed, reqs \o got.requests)

\* probe is what check_for_additional_files(mmsdm_file) does at line 261, resp
\* what the GET of line 263 answers; neither happens on a cache hit
download_one_mmsdm(tables, fsys, f, dry_run, probe, resp) ==
    IF IsCached(fsys, f)
    THEN Outcome(Frame(read_parquet(fsys, clean_parquet(f))), fsys, tables,
                 <<Line("CACHED", clean_parquet(f))>>, <<>>)
    ELSE Fetch(tables, fsys, f, dry_run,
               <<Line("NOT CACHED", clean_parquet(f))>> \o probe.out, probe.requests, resp)

(***************************************************************************)
(* pd.concat(dataset, axis=0): the columns in order of first appearance,   *)
(* the rows of the frames in order, a missing value where a frame lacks a  *)
(* column; ValueError on an empty list.                                    *)
(***************************************************************************)
NaN == 0 - 1

RECURSIVE Dedup(_, _)
Dedup(s, seen) ==
    IF s = <<>> THEN <<>>
    ELSE IF Head(s) \in seen THEN Dedup(Tail(s), seen)
    ELSE <<Head(s)>> \o Dedup(Tail(s), seen \cup {Head(s)})

RECURSIVE Flatten(_)
Flatten(ss) == IF ss = <<>> THEN <<>> ELSE Head(ss) \o Flatten(Tail(ss))

Reindex(data, columns) ==
    [r \in 1..Len(data.rows) |->
        [c \in 1..Len(columns) |->
            IF columns[c] \in SeqRange(data.columns)
            THEN data.rows[r][IndexOf(data.columns, columns[c])]
            ELSE NaN]]

concat(frames) ==
    IF frames = <<>> THEN Raise("ValueError")
    ELSE LET columns == Dedup(Flatten([k \in 1..Len(frames) |-> frames[k].columns]), {})
         IN  Frame(DataFrame(columns,
                             Flatten([k \in 1..Len(frames) |-> Reindex(frames[k], columns)]),
                             UNION {frames[k].tz : k \in 1..Len(frames)}))

(***************************************************************************)
(* download_mmsdm, lines 211-230, step by step: the lookup and the         *)
(* resolution of the range (Download), one period of the loop              *)
(* (DownloadOne), the concatenation (Return).                              *)
(***************************************************************************)
\* collecting in front of the list
CollectInFront(frames, ret) == IF ret.kind # "None" THEN <<ret.data>> \o frames ELSE frames

\* line 226
Collect(frames, ret) == IF ret.kind # "None" THEN Append(frames, ret.data) ELSE frames

\* lines 227-230
Concatenate(frames) ==
    LET c == concat(frames)
    IN  IF c.kind = "raise" /\ c.error = "ValueError" THEN Frame(EmptyFrame) ELSE c

\* a loop that guards the exceptions of a period and goes on
LoopPcGuarded(ret) == "loop"

\* an exception of download_one_mmsdm leaves the loop and download_mmsdm
LoopPc(ret) == IF ret.kind = "raise" THEN "raised" ELSE "loop"

Args(start, end, table_name, dry_run) ==
    [start |-> start, end |-> end, table_name |-> table_name, dry_run |-> dry_run]

NoCall == Args(Date(0, 1, 1), Date(0, 1, 1), "", FALSE)

Summary == [call |-> call, pc |-> pc, result |-> result, out |-> out, requests |-> requests]

NoSummary == [call |-> NoCall, pc |-> "idle", result |-> NoneRet, out |-> <<>>, requests |-> <<>>]

\* the table names and the dates calls are made with: a table of the catalog
\* (with a legacy name and a FILE01 archive) and a name that is not in it,
\* the month before the cutover and the month of the cutover
CallNames == {"predispatch", "no-such-table"}
CallDates == {Date(CutoverYear, CutoverMonth - 1, 1), Date(CutoverYear, CutoverMonth, 1)}

Init ==
    /\ mmsdm_tables = mmsdm_tables0
    /\ dirs = {}
    /\ fs = <<>>
    /\ pc = "idle"
    /\ call = NoCall
    /\ files = <<>>
    /\ i = 1
    /\ dataset = <<>>
    /\ result = NoneRet
    /\ out = <<>>
    /\ requests = <<>>
    /\ prev = NoSummary
    /\ ncalls = 0

Download(start, end, table_name, dry_run) ==
    /\ pc \in {"idle", "returned", "raised"}
    /\ ncalls < MaxCalls
    /\ ncalls' = ncalls + 1
    /\ prev' = Summary
    /\ call' = Args(start, end, table_name, dry_run)
    /\ out' = <<>>
    /\ requests' = <<>>
    /\ dataset' = <<>>
    /\ i' = 1
    /\ LET found == find_mmsdm_table(mmsdm_tables, table_name)
       IN  IF found.kind = "raise"
           THEN /\ pc' = "raised"
                /\ result' = Raise(found.error)
                /\ files' = <<>>
                /\ dirs' = dirs
           ELSE LET fl == make_many_mmsdm_files(mmsdm_tables, start, end, found.table,
                                                base_directory)
                IN  /\ pc' = "loop"
                    /\ result' = NoneRet
                    /\ files' = fl
                    /\ dirs' = MkdirAll(dirs, base_directory, fl)
    /\ UNCHANGED <<mmsdm_tables, fs>>

DownloadOne ==
    /\ pc = "loop"
    /\ i <= Len(files)
    /\ \E head \in HeadResponses :
       \E probe \in {check_for_additional_files(files[i], head)} :
       \E resp \in Responses(files[i]) :
       \E r \in {download_one_mmsdm(mmsdm_tables, fs, files[i], call.dry_run, probe, resp)} :
              /\ fs' = r.fs
              /\ mmsdm_tables' = r.tables
              /\ out' = out \o r.out
              /\ requests' = requests \o r.requests
              /\ pc' = LoopPc(r.ret)
              /\ IF r.ret.kind = "raise"
                 THEN result' = r.ret /\ dataset' = dataset /\ i' = i
                 ELSE result' = result /\ dataset' = Collect(dataset, r.ret) /\ i' = i + 1
    /\ UNCHANGED <<dirs, call, files, prev, ncalls>>

Return ==
    /\ pc = "loop"
    /\ i > Len(files)
    /\ pc' = "returned"
    /\ result' = Concatenate(dataset)
    /\ UNCHANGED <<mmsdm_tables, dirs, fs, call, files, i, dataset, out, requests, prev, ncalls>>

Next ==
    \/ \E start \in CallDates, end \in CallDates, table_name \in CallNames, dry_run \in BOOLEAN :
          Download(start, end, table_name, dry_run)
    \/ DownloadOne
    \/ Return

Spec == Init /\ [][Next]_vars

(***************************************************************************)
(* The locator on its own: the arguments are drawn in the initial state    *)
(* and make_one_mmsdm_file / make_many_mmsdm_files is applied to them.     *)
(* make_one_mmsdm_file gets the year and the month of start.               *)
(***************************************************************************)
LocatorDays == {1, MidDay, MidDay + 1}

LocatorStarts == {Date(y, m, d) : y \in FirstYear..LastYear, m \in 1..12, d \in LocatorDays}

\* the ends tried with a start: from the month before it to MaxSpan months after it
LocatorEnds(start) ==
    {Date(AddMonths(start, k).year, AddMonths(start, k).month, d) :
        k \in (0 - 1)..MaxSpan, d \in LocatorDays}

InitLocator ==
    /\ mmsdm_tables = mmsdm_tables0
    /\ dirs = {}
    /\ fs = <<>>
    /\ pc = "locate"
    /\ \E table_name \in TableNames, start \in LocatorStarts :
          \E end \in LocatorEnds(start) : call = Args(start, end, table_name, FALSE)
    /\ files = <<>>
    /\ i = 1
    /\ dataset = <<>>
    /\ result = NoneRet
    /\ out = <<>>
    /\ requests = <<>>
    /\ prev = NoSummary
    /\ ncalls = 0

LocateOne ==
    /\ pc = "locate"
    /\ pc' = "one"
    /\ \E f \in {make_one_mmsdm_file(call.start.year, call.start.month,
                                     find_mmsdm_table(mmsdm_tables, call.table_name).table,
                                     base_directory)} :
          /\ files' = <<f>>
          /\ dirs' = Mkdir(dirs, base_directory, f)
    /\ UNCHANGED <<mmsdm_tables, fs, call, i, dataset, result, out, requests, prev, ncalls>>

LocateMany ==
    /\ pc = "locate"
    /\ pc' = "many"
    /\ \E fl \in {make_many_mmsdm_files(mmsdm_tables, call.start, call.end,
                                        find_mmsdm_table(mmsdm_tables, call.table_name).table,
                                        base_directory)} :
          /\ files' = fl
          /\ dirs' = MkdirAll(dirs, base_directory, fl)
    /\ UNCHANGED <<mmsdm_tables, fs, call, i, dataset, result, out, requests, prev, ncalls>>

NextLocator == LocateOne \/ LocateMany

SpecLocator == InitLocator /\ [][NextLocator]_vars

(***************************************************************************)
(* Properties of the locator (checked under SpecLocator).                  *)
(***************************************************************************)
EndsWith(s, p) == Len(s) >= Len(p) /\ SubSeq(s, Len(s) - Len(p) + 1, Len(s)) = p

TableOf(f) == find_mmsdm_table(mmsdm_tables0, f.table).table

Stamp(f) == ToString(f.year) \o (IF f.month < 10 THEN "0" ELSE "") \o ToString(f.month) \o "010000"

BeforeCutover(f) == f.year < 2024 \/ (f.year = 2024 /\ f.month < 8)

\* the identifier the old scheme names the archive with
LegacyIdent(f) == IF TableOf(f).legacy_table # None THEN TableOf(f).legacy_table ELSE TableOf(f).table

OldScheme(f) ==
    /\ f.csv_name = "PUBLIC_DVD_" \o LegacyIdent(f) \o "_" \o Stamp(f) \o ".CSV"
    /\ EndsWith(f.url, "/" \o TableOf(f).directory \o "/PUBLIC_DVD_" \o LegacyIdent(f)
                       \o "_" \o Stamp(f) \o ".zip")
    /\ ~Contains(f.url, "PUBLIC_ARCHIVE")

NewScheme(f) ==
    /\ f.csv_name = "PUBLIC_ARCHIVE#" \o TableOf(f).table \o "#" \o Stamp(f) \o ".CSV"
    /\ EndsWith(f.url, "/" \o TableOf(f).directory \o "/PUBLIC_ARCHIVE%23"
                       \o Replace(TableOf(f).table, "#", "%23") \o "%23" \o Stamp(f) \o ".zip")
    /\ ~Contains(f.url, "PUBLIC_DVD")
    /\ ~Contains(f.url, "#")
    /\ TableOf(f).legacy_table # None => ~Contains(f.url, TableOf(f).legacy_table \o "_")

\* C4: every resolved file of a period before (2024, 8) has url and csv_name in
\* the PUBLIC_DVD scheme, with legacy_table when the table sets it and the
\* primary identifier otherwise; every resolved file of a period from (2024, 8)
\* on has both in the PUBLIC_ARCHIVE scheme with the primary identifier; so
\* the files of a range change scheme exactly at the cutover.
C4_SchemeByCutover ==
    pc \in {"one", "many"} =>
        \A k \in 1..Len(files) :
            /\ files[k].month \in 1..12
            /\ IF BeforeCutover(files[k]) THEN OldScheme(files[k]) ELSE NewScheme(files[k])

\* C4, reached: a range that spans the cutover, of a table with a legacy name,
\* resolved to a file before and a file after it
C4_Witness ==
    /\ pc = "many"
    /\ Len(files) >= 2
    /\ BeforeCutover(files[1])
    /\ ~BeforeCutover(files[Len(files)])
    /\ TableOf(files[1]).legacy_table # None

SameMonth(a, b) == a.year = b.year /\ a.month = b.month

\* C5: for start <= end within one calendar month, also when start is not the
\* first day of it, make_many_mmsdm_files returns exactly one file, for that month
C5_OneFilePerSameMonthRange ==
    (pc = "many" /\ DateLE(call.start, call.end) /\ SameMonth(call.start, call.end)) =>
        /\ Len(files) = 1
        /\ files[1].year = call.start.year
        /\ files[1].month = call.start.month

(***************************************************************************)
(* Properties of the pipeline and the orchestrator (checked under Spec).   *)
(***************************************************************************)
ParquetPath(f) == f.data_directory \o "/clean.parquet"
CsvPath(f) == f.data_directory \o "/clean.csv"

IsCleanPath(p) == EndsWith(p, "/clean.parquet") \/ EndsWith(p, "/clean.csv")

HasLine(lines, tag, path) == \E k \in 1..Len(lines) : lines[k].tag = tag /\ lines[k].path = path

HasTag(lines, tag) == \E k \in 1..Len(lines) : lines[k].tag = tag

\* the lines printed by the step
NewLines == SubSeq(out', Len(out) + 1, Len(out'))
NewRequests == SubSeq(requests', Len(requests) + 1, Len(requests'))

\* a step of the loop that finished period i without an error
PeriodDone == pc = "loop" /\ pc' = "loop" /\ i' = i + 1

\* the second of two calls with the same arguments, both of a catalog table,
\* the first of which returned
SecondOfTwo ==
    /\ pc \in {"loop", "returned"}
    /\ prev.pc = "returned"
    /\ prev.call = call

OnlyCacheHits ==
    /\ \A k \in 1..Len(out) : out[k].tag = "CACHED"
    /\ requests = <<>>
    /\ pc = "returned" => (Len(out) = Len(files) /\ result = prev.result)

\* C1 as stated: the second of two calls with the same arguments prints only
\* CACHED, issues no request and returns what the first returned
C1_SecondCallOnlyHits == SecondOfTwo => OnlyCacheHits

\* C1, amended: when the first call ran with dry_run off and found every
\* period of the range in the cache or on the remote, the second call with the
\* same arguments prints CACHED for every period, never NOT CACHED, issues no
\* HEAD and no GET, and returns what the first returned
C1_SecondCallOnlyHitsWhenPersisted ==
    (SecondOfTwo /\ ~call.dry_run /\ ~HasTag(prev.out, "NOT AVAILABLE")) => OnlyCacheHits

\* C1, reached: a first call that downloaded and saved two periods, and the
\* second call with the same arguments returned
C1_Witness ==
    /\ SecondOfTwo
    /\ pc = "returned"
    /\ ~call.dry_run
    /\ Len(files) = 2
    /\ \A k \in 1..2 : HasLine(prev.out, "SAVING", ParquetPath(files[k]))
    /\ result.data.rows # <<>>

\* C2: a period the remote does not have contributes nothing to the result,
\* and after it neither clean.parquet nor clean.csv exists in its directory;
\* a later call that comes to the same period misses the cache again
C2_UnavailableLeavesNoArtifact ==
    /\ [][(PeriodDone /\ HasTag(NewLines, "NOT AVAILABLE")) =>
            /\ dataset' = dataset
            /\ ~Exists(fs', ParquetPath(files[i]))
            /\ ~Exists(fs', CsvPath(files[i]))]_vars
    /\ [](\A k \in 1..(i - 1) :
            (k <= Len(files) /\ pc # "idle"
                /\ HasLine(prev.out, "NOT AVAILABLE", files[k].zipfile_path))
            => HasLine(out, "NOT CACHED", ParquetPath(files[k])))

\* C2, reached: a period that was not available in one call and again in the next
C2_Witness ==
    /\ pc = "returned"
    /\ \E k \in 1..Len(files) :
          /\ HasLine(out, "NOT AVAILABLE", files[k].zipfile_path)
          /\ HasLine(prev.out, "NOT AVAILABLE", files[k].zipfile_path)
          /\ ~Exists(fs, ParquetPath(files[k]))

\* C3: a call with a table name that is not in the catalog raises ValueError
\* and does nothing else: no request, no line printed, no directory created, no
\* file written, no period resolved
C3_UnknownTableFailsFirst ==
    /\ [][(ncalls' = ncalls + 1 /\ call'.table_name \notin TableNames) =>
            /\ pc' = "raised"
            /\ result'.kind = "raise"
            /\ result'.error = "ValueError"
            /\ requests' = <<>>
            /\ out' = <<>>
            /\ files' = <<>>
            /\ dirs' = dirs
            /\ fs' = fs]_vars
    /\ []((pc # "idle" /\ call.table_name \notin TableNames) =>
            (pc = "raised" /\ requests = <<>> /\ out = <<>>))

\* C3, reached: an unknown name after a call that created directories and files
C3_Witness ==
    /\ pc = "raised"
    /\ call.table_name \notin TableNames
    /\ result.error = "ValueError"
    /\ prev.pc = "returned"
    /\ dirs # {}
    /\ DOMAIN fs # {}

\* C6: every table of the catalog is what it was at the start
C6_CatalogImmutable == mmsdm_tables = mmsdm_tables0

\* C7: under dry_run no step creates, changes or removes a clean.csv or a
\* clean.parquet; a period that misses the cache and is available is still
\* requested, extracted, parsed and normalised, its frame joins the result,
\* and it stays a cache miss
C7_DryRunWritesNoArtifact ==
    [][(pc = "loop" /\ call.dry_run) =>
          /\ \A p \in DOMAIN fs \cup DOMAIN fs' :
                IsCleanPath(p) => (p \in DOMAIN fs /\ p \in DOMAIN fs' /\ fs'[p] = fs[p])
          /\ (PeriodDone /\ HasTag(NewLines, "DOWNLOADING")) =>
                /\ \E k \in 1..Len(NewRequests) :
                      NewRequests[k] = [method |-> "GET", url |-> files[i].url]
                /\ Exists(fs', files[i].zipfile_path)
                /\ Exists(fs', files[i].data_directory \o "/" \o files[i].csv_name)
                /\ Len(dataset') = Len(dataset) + 1
                /\ SubSeq(dataset', 1, Len(dataset)) = dataset
                /\ dataset'[Len(dataset')].rows # <<>>
                /\ {"interval-start", "interval-end", "DATETIME"} \subseteq dataset'[Len(dataset')].tz
                /\ ~HasTag(NewLines, "SAVING")
                /\ ~Exists(fs', ParquetPath(files[i]))
                /\ ~Exists(fs', CsvPath(files[i]))]_vars

\* C7, reached: a dry run that downloaded a period a dry run before it had
\* downloaded too, and returned its rows
C7_Witness ==
    /\ pc = "returned"
    /\ call.dry_run
    /\ prev.call.dry_run
    /\ result.data.rows # <<>>
    /\ \E k \in 1..Len(files) :
          /\ HasLine(out, "DOWNLOADING", files[k].zipfile_path)
          /\ HasLine(prev.out, "DOWNLOADING", files[k].zipfile_path)
          /\ ~Exists(fs, ParquetPath(files[k]))

\* period k of the running call was found in the cache or on the remote
Contributed(k) == ~HasLine(out, "NOT AVAILABLE", files[k].zipfile_path)

\* the month a row of the result was published for (payload values carry it)
RowMonth(data, r) == (data.rows[r][IndexOf(data.columns, "RRP")] % 1000) \div 100

\* C8: the periods are in strictly increasing (year, month) order and are
\* processed in that order, one after the other; the result holds the rows of
\* exactly the periods that gave a frame, in that order; when no period gave
\* one, the call returns an empty frame
C8_ChronologicalConcatenation ==
    /\ \A k \in 1..(Len(files) - 1) :
          \/ files[k].year < files[k + 1].year
          \/ files[k].year = files[k + 1].year /\ files[k].month < files[k + 1].month
    /\ pc \in {"loop", "returned", "raised"} =>
          LET started == SelectSeq(out, LAMBDA l : l.tag \in {"CACHED", "NOT CACHED"})
          IN  /\ Len(started) \in {i - 1, i}
              /\ Len(started) <= Len(files)
              /\ \A k \in 1..Len(started) : started[k].path = ParquetPath(files[k])
    /\ pc = "returned" =>
          /\ result.kind = "DataFrame"
          /\ [r \in 1..Len(result.data.rows) |-> RowMonth(result.data, r)]
                = Flatten([k \in 1..Len(files) |->
                              IF Contributed(k) THEN [r \in 1..NumRows |-> files[k].month]
                              ELSE <<>>])
          /\ (\A k \in 1..Len(files) : ~Contributed(k)) => result.data = EmptyFrame

\* C8, reached: a range of two periods, both in the result
C8_Witness ==
    /\ pc = "returned"
    /\ Len(files) = 2
    /\ Contributed(1)
    /\ Contributed(2)
    /\ Len(result.data.rows) = 2 * NumRows

\* C9: a clean.parquet that exists is never rewritten or removed; a period
\* that has one is served from it: no request, no file written, the artifact
\* itself joins the result
C9_ArtifactNeverRewritten ==
    [][/\ \A p \in DOMAIN fs :
             EndsWith(p, "/clean.parquet") => (p \in DOMAIN fs' /\ fs'[p] = fs[p])
       /\ (pc = "loop" /\ i' # i /\ Exists(fs, ParquetPath(files[i]))) =>
             /\ fs' = fs
             /\ requests' = requests
             /\ NewLines = <<[tag |-> "CACHED", path |-> ParquetPath(files[i])]>>
             /\ dataset' = Append(dataset, fs[ParquetPath(files[i])])]_vars

\* C9, reached: a period saved by one call and served from the cache by the next
C9_Witness ==
    /\ pc = "returned"
    /\ \E k \in 1..Len(files) :
          /\ HasLine(prev.out, "SAVING", ParquetPath(files[k]))
          /\ HasLine(out, "CACHED", ParquetPath(files[k]))

\* what a step writes lies in the directory of the period it processes
WritesOnlyPeriod ==
    \A p \in DOMAIN fs' :
        (p \notin DOMAIN fs \/ fs'[p] # fs[p]) => StartsWith(p, files[i].data_directory \o "/")

\* C10: an error raised while period k is parsed or transformed ends
\* download_mmsdm with that error and without a result; the periods before k
\* that were available have their clean.parquet when dry_run is off, period k
\* has none, and nothing was requested, printed or written for a period after k
C10_MalformedPeriodAbortsRange ==
    /\ [](result.kind = "raise" => pc = "raised")
    /\ []((pc = "raised" /\ result.error # "ValueError") =>
            /\ result.kind = "raise"
            /\ i <= Len(files)
            /\ HasLine(out, "DOWNLOADING", files[i].zipfile_path)
            /\ \A k \in 1..(i - 1) :
                  (Contributed(k) /\ ~call.dry_run) => Exists(fs, ParquetPath(files[k]))
            /\ ~Exists(fs, ParquetPath(files[i]))
            /\ \A k \in (i + 1)..Len(files) :
                  /\ \A j \in 1..Len(out) : ~StartsWith(out[j].path, files[k].data_directory)
                  /\ \A j \in 1..Len(requests) :
                        requests[j].url \notin {files[k].url, Replace(files[k].url, "FILE01", "FILE02")})
    /\ [][pc = "loop" => WritesOnlyPeriod]_vars

\* C10, reached: the second period of a range is malformed after the first was
\* downloaded and saved
C10_Witness ==
    /\ pc = "raised"
    /\ result.error = "ParserError"
    /\ i = 2
    /\ HasLine(out, "SAVING", ParquetPath(files[1]))
    /\ Exists(fs, ParquetPath(files[1]))

====
